---- MODULE Spec2Model ----
(***************************************************************************)
(* A model of MarkdownDB (src/src/index.ts): a store that reads markdown   *)
(* files with a front-matter header, validates the header against a schema *)
(* compiled at registration, caches the objects by file path in a size     *)
(* bounded LRU cache and replaces relation ids by the objects they name.   *)
(*                                                                         *)
(* Async functions are modelled by an explicit stack of frames per         *)
(* operation.  An operation runs without interruption from one I/O await   *)
(* (fs.readFile, glob) to the next; `running` names the operation that is  *)
(* inside such a synchronous segment.                                      *)
(***************************************************************************)
EXTENDS Integers, Sequences, FiniteSets, TLC

VARIABLES
    disk,             \* the markdown files under baseDir, in glob order
    maxSize,          \* LRUCache maxSize (opts.maxCacheSize ?? DEFAULT_MAX_CACHE_SIZE)
    idSchema,         \* the module-level ID_SCHEMA_TYPE object
    objectTypes,      \* this.objectTypes
    cacheByFile,      \* this.cacheByFile, least recently used first
    cacheById,        \* this.cacheById
    filenameCache,    \* this.filenameCache
    objsInHydration,  \* this.objsInHydration
    stack,            \* per operation slot: the frames of its async call chain
    running,          \* the slot inside a synchronous segment, 0 if none
    call,             \* per slot: the operation called and its outcome, with
                      \* what it read, entered and found cached
    nregs             \* addObjectType calls made so far

vars == <<disk, maxSize, idSchema, objectTypes, cacheByFile, cacheById,
          filenameCache, objsInHydration, stack, running, call, nregs>>

-----------------------------------------------------------------------------
(* Bounds of the model *)

\* registrations made before the first query
MaxRegs == 2

\* operations each slot starts in SpecConc
MaxConcOps == 1

DEFAULT_MAX_CACHE_SIZE == 67108864

\* operation slots: slot 1 alone in Spec, both in SpecConc
Procs == {1, 2}

-----------------------------------------------------------------------------
(* JavaScript values *)

Undef == [k |-> "undef"]
Null == [k |-> "null"]
IntV(n) == [k |-> "int", n |-> n]
StrV(s) == [k |-> "str", s |-> s]
ArrV(items) == [k |-> "arr", items |-> items]
ObjV(o) == [k |-> "obj", o |-> o]

\* obj[key]: undefined for a key the object does not have
Get(o, key) == IF key \in DOMAIN o THEN o[key] ELSE Undef

\* !v
Falsy(v) ==
    \/ v.k \in {"undef", "null"}
    \/ v.k = "int" /\ v.n = 0
    \/ v.k = "str" /\ v.s = ""

\* a === b.  Arrays and objects are compared by reference: a freshly built
\* array or object is never identical to a value the caller holds.
StrictEq(a, b) ==
    /\ a.k = b.k
    /\ a.k \in {"undef", "null", "int", "str"}
    /\ (a.k = "int" => a.n = b.n)
    /\ (a.k = "str" => a.s = b.s)

\* decimal numeral of a small natural
Digits(n) ==
    CASE n = 0 -> "0" [] n = 1 -> "1" [] n = 2 -> "2" [] n = 3 -> "3"
      [] n = 4 -> "4" [] n = 5 -> "5" [] n = 6 -> "6" [] n = 7 -> "7"
      [] n = 8 -> "8" [] n = 9 -> "9"

\* `${v}` for a primitive
ToStr(v) ==
    CASE v.k = "int" -> Digits(v.n)
      [] v.k = "str" -> v.s
      [] v.k = "null" -> "null"
      [] v.k = "undef" -> "undefined"

RECURSIVE SumOver(_, _)
SumOver(f, S) ==
    IF S = {} THEN 0
    ELSE LET x == CHOOSE y \in S : TRUE IN f[x] + SumOver(f, S \ {x})

RECURSIVE JsonLen(_)
\* JSON.stringify(v).length, v a value without undefined members
JsonLen(v) ==
    CASE v.k = "int" -> Len(Digits(v.n))
      [] v.k = "str" -> Len(v.s) + 2
      [] v.k = "null" -> 4
      [] v.k = "arr" ->
            LET n == Len(v.items)
                each == [i \in 1..n |-> JsonLen(v.items[i])]
            IN 2 + SumOver(each, 1..n) + (IF n > 0 THEN n - 1 ELSE 0)
      [] v.k = "obj" ->
            LET keys == DOMAIN v.o
                each == [key \in keys |-> Len(key) + 3 + JsonLen(v.o[key])]
                n == Cardinality(keys)
            IN 2 + SumOver(each, keys) + (IF n > 0 THEN n - 1 ELSE 0)

-----------------------------------------------------------------------------
(* Files on disk.  A file is its directory under baseDir, its file name     *)
(* (an optional ordinal prefix, a stem, ".md"), and what front-matter      *)
(* parses its content into: the header attributes and the body.            *)

BaseDir == "/db"

FilePath(f) == BaseDir \o "/" \o f.dir \o "/" \o f.ord \o f.stem \o ".md"

\* fileNameToSlug: basename without a leading "<digits>-" and without ".md"
fileNameToSlug(f) == f.stem

\* marked.parse(body)
Marked(body) == "<p>" \o body \o "</p>"

Jon == [dir |-> "authors", ord |-> "", stem |-> "jon", body |-> "bio",
        header |-> [id |-> IntV(1), name |-> StrV("Jon"),
                    articles |-> ArrV(<<IntV(1)>>)]]

Great == [dir |-> "articles", ord |-> "1-", stem |-> "great", body |-> "txt",
          header |-> [id |-> IntV(1), title |-> StrV("Great"), author |-> IntV(1)]]

\* a second article of the same author
Second == [dir |-> "articles", ord |-> "2-", stem |-> "second", body |-> "txt",
           header |-> [id |-> IntV(2), title |-> StrV("Second"), author |-> IntV(1)]]

\* an article whose header lacks the required title
NoTitle == [dir |-> "articles", ord |-> "", stem |-> "untitled", body |-> "txt",
            header |-> [id |-> IntV(1)]]

\* articles without a usable id: none at all, an empty string, zero
NoId == [dir |-> "articles", ord |-> "", stem |-> "noid", body |-> "txt",
         header |-> [title |-> StrV("Anon")]]
EmptyId == [dir |-> "articles", ord |-> "", stem |-> "emptyid", body |-> "txt",
            header |-> [id |-> StrV(""), title |-> StrV("Anon")]]
ZeroId == [dir |-> "articles", ord |-> "", stem |-> "zeroid", body |-> "txt",
           header |-> [id |-> IntV(0), title |-> StrV("Anon")]]
NullId == [dir |-> "articles", ord |-> "", stem |-> "nullid", body |-> "txt",
           header |-> [id |-> Null, title |-> StrV("Anon")]]

\* an author whose second article does not exist
Dangling == [Jon EXCEPT !.header.articles = ArrV(<<IntV(1), IntV(9)>>)]

\* an author listing an article twice, out of file order
Prolific == [Jon EXCEPT !.header.articles = ArrV(<<IntV(2), IntV(1), IntV(2)>>)]

\* the disks a store is opened on (test/fixtures/1, test/fixtures/2 and variations)
Disks ==
    { <<Great, Jon>>,
      <<NoTitle, Jon>>,
      <<Great, NoTitle>>,
      <<Great, Dangling>>,
      <<Great, Second, Prolific>>,
      <<NoId>>, <<EmptyId>>, <<ZeroId>>, <<NullId>> }

\* is there a file at the path
OnDisk(path) == \E j \in 1..Len(disk) : FilePath(disk[j]) = path

\* the file at a path (paths on a disk are distinct)
FileAt(path) ==
    LET i == CHOOSE j \in 1..Len(disk) : FilePath(disk[j]) = path IN disk[i]

RECURSIVE SelectPaths(_, _)
SelectPaths(files, dir) ==
    IF files = <<>> THEN <<>>
    ELSE (IF Head(files).dir = dir THEN <<FilePath(Head(files))>> ELSE <<>>)
         \o SelectPaths(Tail(files), dir)

\* glob(path.join(baseDir, dirName, '**/*.md'))
Glob(dirName) == SelectPaths(disk, dirName)

-----------------------------------------------------------------------------
(* Schemas and registration *)

Types == {"author", "article"}

\* inflection's pluralize, on the regular nouns used as type names
pluralize(type) == type \o "s"

StringProp == [types |-> {"string"}, nullable |-> "unset"]
IntegerOrNull == [types |-> {"integer"}, nullable |-> "true"]

\* ARTICLE_SCHEMA and AUTHOR_SCHEMA of the test fixtures
UserSchema(type) ==
    IF type = "article"
    THEN [properties |-> [title |-> StringProp, date |-> IntegerOrNull],
          required |-> {"title"}]
    ELSE [properties |-> [name |-> StringProp], required |-> {"name"}]

\* articleRelations and authorRelations of the tests
HasOneAuthor ==
    <<[name |-> "author", relType |-> "hasOne", objType |-> "author",
       required |-> "true"]>>

HasManyArticles ==
    <<[name |-> "articles", relType |-> "hasMany", objType |-> "article",
       required |-> "true"]>>

\* an author type whose articles field names authors
HasManyAuthors ==
    <<[name |-> "articles", relType |-> "hasMany", objType |-> "author",
       required |-> "unset"]>>

\* the relation declarations a caller passes, in Object.keys order
RelationChoices(type) ==
    IF type = "article" THEN {<<>>, HasOneAuthor}
    ELSE {<<>>, HasManyArticles, HasManyAuthors}

\* !!rel.required
BangBang(required) == IF required = "true" THEN "true" ELSE "false"

\* a property that is the ID_SCHEMA_TYPE object itself
IdRef == [ref |-> "ID_SCHEMA_TYPE"]

RECURSIVE AddRelations(_, _)
\* the loop over opts.relations: acc is the schema's properties so far, the
\* ID_SCHEMA_TYPE object so far and the error thrown, if any
AddRelations(rels, acc) ==
    IF rels = <<>> \/ acc.err # "none" THEN acc
    ELSE LET rel == Head(rels) IN
         IF rel.relType \notin {"hasMany", "hasOne"}
         THEN [acc EXCEPT !.err = "UnknownRelationKind"]
         ELSE IF rel.name \in DOMAIN acc.properties
         THEN [acc EXCEPT !.err = "RelationNameCollision"]
         ELSE IF rel.relType = "hasMany"
         THEN AddRelations(Tail(rels),
                [acc EXCEPT !.properties =
                    (rel.name :> [types |-> {"array"}, items |-> IdRef,
                                  nullable |-> BangBang(rel.required)]) @@ @])
         ELSE AddRelations(Tail(rels),
                [acc EXCEPT !.properties = (rel.name :> IdRef) @@ @,
                            !.idS = [@ EXCEPT !.nullable = BangBang(rel.required)]])

\* what ajv.compile sees: every reference to ID_SCHEMA_TYPE read as the object is now
Resolve(prop, idS) ==
    IF "ref" \in DOMAIN prop THEN idS
    ELSE IF "items" \in DOMAIN prop THEN [prop EXCEPT !.items = idS]
    ELSE prop

\* addObjectType up to the compilation: the error thrown or the descriptor stored
Registration(type, schema, rels, idS) ==
    IF "id" \in DOMAIN schema.properties
    THEN [err |-> "ReservedKeyConflict", idS |-> idS]
    ELSE LET start == [err |-> "none", idS |-> idS,
                       properties |-> ("id" :> IdRef) @@ schema.properties]
             acc == AddRelations(rels, start)
         IN IF acc.err # "none" THEN [err |-> acc.err, idS |-> acc.idS]
            ELSE [err |-> "none", idS |-> acc.idS,
                  descriptor |->
                    [dirName |-> pluralize(type),
                     schemaValidator |->
                        [properties |-> [key \in DOMAIN acc.properties |->
                                            Resolve(acc.properties[key], acc.idS)],
                         required |-> schema.required \cup {"id"}],
                     relations |-> rels]]

\* does value v satisfy a compiled property schema
TypeOk(prop, v) ==
    \/ v.k = "null" /\ prop.nullable = "true"
    \/ v.k = "str" /\ "string" \in prop.types
    \/ v.k = "int" /\ "integer" \in prop.types
    \/ /\ v.k = "arr" /\ "array" \in prop.types
       /\ \A i \in 1..Len(v.items) :
            \/ v.items[i].k = "null" /\ prop.items.nullable = "true"
            \/ v.items[i].k = "str" /\ "string" \in prop.items.types
            \/ v.items[i].k = "int" /\ "integer" \in prop.items.types

\* schemaValidator(metadata)
Validate(validator, metadata) ==
    /\ validator.required \subseteq DOMAIN metadata
    /\ \A key \in DOMAIN metadata \cap DOMAIN validator.properties :
            TypeOk(validator.properties[key], metadata[key])

Registered(type) == type \in DOMAIN objectTypes

-----------------------------------------------------------------------------
(* The primary cache: lru-cache with maxSize and sizeCalculation.  The     *)
(* cache is a sequence of entries, least recently used first.              *)

RECURSIVE TotalSize(_)
TotalSize(c) == IF c = <<>> THEN 0 ELSE Head(c).size + TotalSize(Tail(c))

LruHas(c, key) == \E i \in 1..Len(c) : c[i].key = key

LruIndex(c, key) == CHOOSE i \in 1..Len(c) : c[i].key = key

LruWithout(c, key) == SelectSeq(c, LAMBDA e : e.key # key)

\* cacheByFile.get(key) makes the entry the most recently used
LruTouch(c, key) ==
    IF LruHas(c, key) THEN Append(LruWithout(c, key), c[LruIndex(c, key)]) ELSE c

RECURSIVE LruEvict(_, _)
\* drop least recently used entries until `room` fits under maxSize
LruEvict(c, room) ==
    IF c # <<>> /\ TotalSize(c) > maxSize - room THEN LruEvict(Tail(c), room) ELSE c

\* sizeCalculation: JSON.stringify(entry).length
SizeCalculation(obj) == JsonLen(ObjV(obj))

\* LruSet that refuses an entry when the cache has no room left, instead
\* of evicting older entries
LruSetWithoutEviction(c, key, obj) ==
    LET size == JsonLen(ObjV(obj)) IN
    IF size > maxSize - TotalSize(LruWithout(c, key)) THEN LruWithout(c, key)
    ELSE Append(LruWithout(c, key), [key |-> key, value |-> obj, size |-> size])

\* cacheByFile.set(key, obj): an entry larger than maxSize is not stored (and
\* the key's old entry is dropped); otherwise older entries make room
LruSet(c, key, obj) ==
    LET size == SizeCalculation(obj) IN
    IF size > maxSize THEN LruWithout(c, key)
    ELSE Append(LruEvict(LruWithout(c, key), size),
                [key |-> key, value |-> obj, size |-> size])

-----------------------------------------------------------------------------
(* Objects *)

\* {...metadata, id, _html, _slug, _path}
MakeObject(f) ==
    ("id" :> f.header.id) @@ ("_html" :> StrV(Marked(f.body)))
    @@ ("_slug" :> StrV(fileNameToSlug(f))) @@ ("_path" :> StrV(FilePath(f)))
    @@ f.header

\* Objects are modelled by their content.  The one object that is shared
\* while it is still being changed is the one handed to hydrateRelations:
\* it carries the key "_busy" until hydrateRelations returns, so that a
\* reference to it is told apart from an object of equal content.
Busy(object) == ("_busy" :> Null) @@ object

Settled(object) == [key \in DOMAIN object \ {"_busy"} |-> object[key]]

\* `${type}-${id}`: the key of objsInHydration and of cacheById
TypeIdKey(type, id) == type \o "-" \o ToStr(id)

\* ReadOutcome without the schema validation
ReadOutcomeUnvalidated(validator, f) ==
    IF Falsy(Get(f.header, "id")) THEN "MissingId" ELSE "ok"

\* ReadOutcome with the id check made before the schema validation
ReadOutcomeIdFirst(validator, f) ==
    IF Falsy(Get(f.header, "id")) THEN "MissingId"
    ELSE IF ~Validate(validator, f.header) THEN "ValidationError"
    ELSE "ok"

\* what getByFile does with the file it has read, before hydration
ReadOutcome(validator, f) ==
    IF ~Validate(validator, f.header) THEN "ValidationError"
    ELSE IF Falsy(Get(f.header, "id")) THEN "MissingId"
    ELSE "ok"

\* MatchLoop that keeps an object as soon as one key of the query matches
MatchLoopAnyKey(obj, query, keys, match) ==
    IF keys = {} THEN match
    ELSE \E queryKey \in keys : StrictEq(Get(obj, queryKey), query[queryKey])

RECURSIVE MatchLoop(_, _, _, _)
\* the loop of find over Object.keys(query), with its match flag
MatchLoop(obj, query, keys, match) ==
    IF keys = {} THEN match
    ELSE LET queryKey == CHOOSE key \in keys : TRUE IN
         MatchLoop(obj, query, keys \ {queryKey},
                   IF ~StrictEq(Get(obj, queryKey), query[queryKey]) THEN FALSE ELSE match)

\* the objects find keeps
FindFilter(objects, query) ==
    SelectSeq(objects, LAMBDA obj : MatchLoop(obj, query, DOMAIN query, TRUE))

-----------------------------------------------------------------------------
(* Frames of the async call chain *)

FindByIdFrame(type, id) ==
    [fn |-> "findById", pc |-> "start", type |-> type, id |-> id,
     files |-> <<>>, i |-> 1, dir |-> "", res |-> <<>>]

GetAllByTypeFrame(type) ==
    [fn |-> "getAllByType", pc |-> "start", type |-> type,
     files |-> <<>>, i |-> 1, dir |-> "", objects |-> <<>>, res |-> <<>>]

FindFrame(type, query) ==
    [fn |-> "find", pc |-> "start", type |-> type, query |-> query, res |-> <<>>]

GetByFileFrame(type, mdFile) ==
    [fn |-> "getByFile", pc |-> "start", type |-> type, mdFile |-> mdFile,
     validator |-> <<>>, res |-> <<>>]

HydrateFrame(type, object) ==
    [fn |-> "hydrateRelations", pc |-> "start", type |-> type, object |-> object,
     rels |-> <<>>, items |-> <<>>, newItems |-> <<>>, res |-> <<>>]

Top(p) == stack[p][Len(stack[p])]

At(p, fn, pc) == stack[p] # <<>> /\ Top(p).fn = fn /\ Top(p).pc = pc

Below(stk) == SubSeq(stk, 1, Len(stk) - 1)

\* The outcome of a step for one slot: its stack, its call record, and
\* whether it is still inside its synchronous segment.

\* the top frame returns v: the awaiting caller resumes, or the operation ends
Return(stk, c, v) ==
    IF Len(stk) = 1
    THEN [stk |-> <<>>, c |-> [c EXCEPT !.status = "ok", !.val = v], run |-> FALSE]
    ELSE [stk |-> Append(SubSeq(stk, 1, Len(stk) - 2),
                         [stk[Len(stk) - 1] EXCEPT !.res = v, !.pc = "ret"]),
          c |-> c, run |-> TRUE]

\* an error is thrown: no frame catches it, the operation rejects
Throw(c, e) == [stk |-> <<>>, c |-> [c EXCEPT !.status = e], run |-> FALSE]

\* the top frame becomes fr and awaits an I/O completion
Suspend(stk, c, fr) == [stk |-> Append(Below(stk), fr), c |-> c, run |-> FALSE]

\* the top frame becomes fr and awaits the call of callee
Await(stk, c, fr, callee) ==
    [stk |-> Append(Append(Below(stk), [fr EXCEPT !.pc = "wait"]), callee),
     c |-> c, run |-> TRUE]

Apply(p, r) ==
    /\ stack' = [stack EXCEPT ![p] = r.stk]
    /\ call' = [call EXCEPT ![p] = r.c]
    /\ running' = IF r.run THEN p ELSE 0

-----------------------------------------------------------------------------
(* Initial state: a store constructed on a disk, nothing registered *)

\* budgets given as opts.maxCacheSize: the default, one that holds a hydrated
\* object but not two, and one that holds only an object without embedded ones
MaxCacheSizes == {DEFAULT_MAX_CACHE_SIZE, 400, 150}

\* the stores constructed: every budget on the fixture disk, the default and
\* the smallest on the disks with a broken file, the default on the others
Stores ==
    { <<d, m>> \in Disks \X MaxCacheSizes :
        \/ d = <<Great, Jon>>
        \/ d \in {<<NoTitle, Jon>>, <<Great, Dangling>>} /\ m # 400
        \/ m = DEFAULT_MAX_CACHE_SIZE }

NoCall ==
    [op |-> "none", type |-> "", arg |-> <<>>, status |-> "idle", val |-> <<>>,
     reads |-> 0, lastRead |-> "", entered |-> 0, cold |-> FALSE, prev |-> <<>>,
     all |-> <<>>, overlap |-> FALSE, scanned |-> 0, count |-> 0]

Init ==
    /\ \E store \in Stores : disk = store[1] /\ maxSize = store[2]
    /\ idSchema = [types |-> {"string", "integer"}, nullable |-> "unset"]
    /\ objectTypes = <<>>
    /\ cacheByFile = <<>>
    /\ cacheById = <<>>
    /\ filenameCache = <<>>
    /\ objsInHydration = <<>>
    /\ stack = [p \in Procs |-> <<>>]
    /\ running = 0
    /\ call = [p \in Procs |-> NoCall]
    /\ nregs = 0

Idle == \A p \in Procs : stack[p] = <<>>

NoQueryYet == \A p \in Procs : call[p].op = "none"

-----------------------------------------------------------------------------
(* addObjectType *)

AddObjectType(type, rels) ==
    /\ Idle /\ NoQueryYet
    /\ nregs < MaxRegs
    /\ nregs' = nregs + 1
    /\ LET reg == Registration(type, UserSchema(type), rels, idSchema) IN
        /\ idSchema' = reg.idS
        /\ objectTypes' = IF reg.err = "none"
                          THEN (type :> reg.descriptor) @@ objectTypes
                          ELSE objectTypes
    /\ UNCHANGED <<disk, maxSize, cacheByFile, cacheById, filenameCache,
                   objsInHydration, stack, running, call>>

-----------------------------------------------------------------------------
(* The store's callers *)

\* ids a caller asks for: ids present on the disks, as numbers and as a
\* string, and one that no file carries
QueryIds == {IntV(1), StrV("1"), IntV(9)}

\* predicate maps a caller passes to find
Queries ==
    { <<>>,
      [name |-> StrV("Jon")],
      [name |-> StrV("Jon"), id |-> IntV(9)],
      [name |-> StrV("Jon"), id |-> IntV(1)],
      [nick |-> StrV("jl")],
      [nick |-> Undef] }

\* the files of a type's directory
PathsOf(type) == Glob(pluralize(type))

Begin(p, op, type, arg, frame) ==
    /\ running = 0
    /\ stack[p] = <<>>
    /\ stack' = [stack EXCEPT ![p] = <<frame>>]
    /\ running' = p
    /\ call' = [q \in Procs |->
                IF q # p THEN [call[q] EXCEPT !.overlap = @ \/ stack[q] # <<>>]
                ELSE [op |-> op, type |-> type, arg |-> arg, status |-> "running",
                      val |-> <<>>, reads |-> 0, lastRead |-> "", entered |-> 0,
                      cold |-> op = "getByFile" /\ ~LruHas(cacheByFile, arg),
                      prev |-> IF /\ op = "getByFile" /\ call[p].op = op
                                  /\ call[p].type = type /\ call[p].arg = arg
                                  /\ call[p].status = "ok"
                               THEN <<call[p].val>> ELSE <<>>,
                      all |-> <<>>,
                      overlap |-> \E r \in Procs \ {p} : stack[r] # <<>>,
                      scanned |-> 0,
                      count |-> IF call[p].count < MaxConcOps THEN call[p].count + 1
                                ELSE call[p].count]]
    /\ UNCHANGED <<disk, maxSize, idSchema, objectTypes, cacheByFile, cacheById,
                   filenameCache, objsInHydration, nregs>>

StartFindById(p, type, id) ==
    Begin(p, "findById", type, id, FindByIdFrame(type, id))

StartGetByFile(p, type, mdFile) ==
    Begin(p, "getByFile", type, mdFile, GetByFileFrame(type, mdFile))

StartGetAllByType(p, type) ==
    Begin(p, "getAllByType", type, <<>>, GetAllByTypeFrame(type))

StartFind(p, type, query) ==
    Begin(p, "find", type, query, FindFrame(type, query))

-----------------------------------------------------------------------------
(* getFilesForType, and the loops of findById and getAllByType over it *)

\* the loop body of findById / getAllByType at file i
ScanLoop(stk, c, fr) ==
    IF fr.i > Len(fr.files)
    THEN IF fr.fn = "findById" THEN Throw(c, "NotFound")
         ELSE Return(stk, c, fr.objects)
    ELSE Await(stk, c, fr, GetByFileFrame(fr.type, fr.files[fr.i]))

\* getFilesForType that takes an empty memoized list for a missing one
getFilesForTypeRescanningEmpty(stk, c, fr) ==
    IF ~Registered(fr.type) THEN Throw(c, "NoSuchObjectType")
    ELSE IF fr.type \notin DOMAIN filenameCache \/ filenameCache[fr.type] = <<>>
    THEN Suspend(stk, c, [fr EXCEPT !.pc = "glob",
                                    !.dir = objectTypes[fr.type].dirName])
    ELSE ScanLoop(stk, c, [fr EXCEPT !.files = filenameCache[fr.type], !.i = 1])

\* await this.getFilesForType(type), up to its glob
getFilesForType(stk, c, fr) ==
    IF ~Registered(fr.type) THEN Throw(c, "NoSuchObjectType")
    ELSE IF fr.type \notin DOMAIN filenameCache
    THEN Suspend(stk, c, [fr EXCEPT !.pc = "glob",
                                    !.dir = objectTypes[fr.type].dirName])
    ELSE ScanLoop(stk, c, [fr EXCEPT !.files = filenameCache[fr.type], !.i = 1])

\* the glob of getFilesForType completes: the list is memoized and returned
FilesGlobbed(p) ==
    /\ running = 0
    /\ stack[p] # <<>> /\ Top(p).pc = "glob"
    /\ LET fr == Top(p)
           files == Glob(fr.dir)
       IN /\ filenameCache' = (fr.type :> files) @@ filenameCache
          /\ Apply(p, ScanLoop(stack[p], call[p],
                               [fr EXCEPT !.files = files, !.i = 1]))
    /\ UNCHANGED <<disk, maxSize, idSchema, objectTypes, cacheByFile, cacheById,
                   objsInHydration, nregs>>

\* getCachedObjectById: the object found, and the two caches afterwards
getCachedObjectById(type, id) ==
    LET cacheKey == TypeIdKey(type, id) IN
    IF cacheKey \in DOMAIN cacheById
    THEN LET filePath == cacheById[cacheKey] IN
         IF LruHas(cacheByFile, filePath)
         THEN [hit |-> TRUE,
               value |-> cacheByFile[LruIndex(cacheByFile, filePath)].value,
               byFile |-> LruTouch(cacheByFile, filePath), byId |-> cacheById]
         ELSE [hit |-> FALSE, value |-> <<>>, byFile |-> cacheByFile,
               byId |-> [key \in DOMAIN cacheById \ {cacheKey} |-> cacheById[key]]]
    ELSE [hit |-> FALSE, value |-> <<>>, byFile |-> cacheByFile, byId |-> cacheById]

\* findById up to its first await
FindByIdEnter(p) ==
    /\ running = p /\ At(p, "findById", "start")
    /\ LET fr == Top(p)
           cached == getCachedObjectById(fr.type, fr.id)
       IN /\ cacheByFile' = cached.byFile
          /\ cacheById' = cached.byId
          /\ Apply(p, IF cached.hit THEN Return(stack[p], call[p], cached.value)
                      ELSE getFilesForType(stack[p], call[p], fr))
    /\ UNCHANGED <<disk, maxSize, idSchema, objectTypes, filenameCache,
                   objsInHydration, nregs>>

\* the call record once the loop of the operation itself has loaded a file
Scanned(p) ==
    IF Len(stack[p]) = 1 THEN [call[p] EXCEPT !.scanned = @ + 1] ELSE call[p]

\* FindByIdNext that gives up at the first file with another id
FindByIdNextFirstOnly(p) ==
    /\ running = p /\ At(p, "findById", "ret")
    /\ LET fr == Top(p) IN
       Apply(p, IF StrictEq(Get(fr.res, "id"), fr.id)
                THEN Return(stack[p], Scanned(p), fr.res)
                ELSE Throw(Scanned(p), "NotFound"))
    /\ UNCHANGED <<disk, maxSize, idSchema, objectTypes, cacheByFile, cacheById,
                   filenameCache, objsInHydration, nregs>>

\* findById after getByFile returned the object of file i
FindByIdNext(p) ==
    /\ running = p /\ At(p, "findById", "ret")
    /\ LET fr == Top(p) IN
       Apply(p, IF StrictEq(Get(fr.res, "id"), fr.id)
                THEN Return(stack[p], Scanned(p), fr.res)
                ELSE ScanLoop(stack[p], Scanned(p), [fr EXCEPT !.i = @ + 1]))
    /\ UNCHANGED <<disk, maxSize, idSchema, objectTypes, cacheByFile, cacheById,
                   filenameCache, objsInHydration, nregs>>

\* getAllByType up to its first await
GetAllByTypeEnter(p) ==
    /\ running = p /\ At(p, "getAllByType", "start")
    /\ Apply(p, getFilesForType(stack[p], call[p], Top(p)))
    /\ UNCHANGED <<disk, maxSize, idSchema, objectTypes, cacheByFile, cacheById,
                   filenameCache, objsInHydration, nregs>>

\* GetAllByTypeNext that puts the newest object first
GetAllByTypeNextPrepending(p) ==
    /\ running = p /\ At(p, "getAllByType", "ret")
    /\ LET fr == Top(p) IN
       Apply(p, ScanLoop(stack[p], Scanned(p),
                         [fr EXCEPT !.objects = <<fr.res>> \o @, !.i = @ + 1]))
    /\ UNCHANGED <<disk, maxSize, idSchema, objectTypes, cacheByFile, cacheById,
                   filenameCache, objsInHydration, nregs>>

\* getAllByType after getByFile returned the object of file i
GetAllByTypeNext(p) ==
    /\ running = p /\ At(p, "getAllByType", "ret")
    /\ LET fr == Top(p) IN
       Apply(p, ScanLoop(stack[p], Scanned(p),
                         [fr EXCEPT !.objects = Append(@, fr.res), !.i = @ + 1]))
    /\ UNCHANGED <<disk, maxSize, idSchema, objectTypes, cacheByFile, cacheById,
                   filenameCache, objsInHydration, nregs>>

\* find: await this.getAllByType(type)
FindEnter(p) ==
    /\ running = p /\ At(p, "find", "start")
    /\ Apply(p, Await(stack[p], call[p], Top(p), GetAllByTypeFrame(Top(p).type)))
    /\ UNCHANGED <<disk, maxSize, idSchema, objectTypes, cacheByFile, cacheById,
                   filenameCache, objsInHydration, nregs>>

\* find: the filter over the objects of the type
FindMatch(p) ==
    /\ running = p /\ At(p, "find", "ret")
    /\ Apply(p, Return(stack[p], [call[p] EXCEPT !.all = Top(p).res],
                       FindFilter(Top(p).res, Top(p).query)))
    /\ UNCHANGED <<disk, maxSize, idSchema, objectTypes, cacheByFile, cacheById,
                   filenameCache, objsInHydration, nregs>>

-----------------------------------------------------------------------------
(* getByFile *)

\* getByFile up to its readFile
GetByFileEnter(p) ==
    /\ running = p /\ At(p, "getByFile", "start")
    /\ LET fr == Top(p) IN
       IF LruHas(cacheByFile, fr.mdFile)
       THEN /\ cacheByFile' = LruTouch(cacheByFile, fr.mdFile)
            /\ Apply(p, Return(stack[p], call[p],
                               cacheByFile[LruIndex(cacheByFile, fr.mdFile)].value))
       ELSE /\ cacheByFile' = cacheByFile
            /\ Apply(p, IF ~Registered(fr.type) THEN Throw(call[p], "NoSuchObjectType")
                        ELSE Suspend(stack[p], call[p],
                                [fr EXCEPT !.pc = "read",
                                           !.validator =
                                              objectTypes[fr.type].schemaValidator]))
    /\ UNCHANGED <<disk, maxSize, idSchema, objectTypes, cacheById,
                   filenameCache, objsInHydration, nregs>>

\* GetByFileRead that caches the object it has built before hydrating it
GetByFileReadCachingFirst(p) ==
    /\ running = 0 /\ At(p, "getByFile", "read")
    /\ LET fr == Top(p)
           f == FileAt(fr.mdFile)
           outcome == ReadOutcome(fr.validator, f)
           c == [call[p] EXCEPT !.reads = @ + 1, !.lastRead = fr.mdFile]
       IN IF ~OnDisk(fr.mdFile)
          THEN cacheByFile' = cacheByFile /\ Apply(p, Throw(call[p], "ENOENT"))
          ELSE IF outcome # "ok"
          THEN cacheByFile' = cacheByFile /\ Apply(p, Throw(c, outcome))
          ELSE /\ cacheByFile' = LruSet(cacheByFile, fr.mdFile, Busy(MakeObject(f)))
               /\ Apply(p, Await(stack[p], c, fr,
                                 HydrateFrame(fr.type, Busy(MakeObject(f)))))
    /\ UNCHANGED <<disk, maxSize, idSchema, objectTypes, cacheById,
                   filenameCache, objsInHydration, nregs>>

\* the readFile of getByFile completes: parse, validate, build the object
\* and call hydrateRelations on it
GetByFileRead(p) ==
    /\ running = 0 /\ At(p, "getByFile", "read")
    /\ LET fr == Top(p)
           f == FileAt(fr.mdFile)
           outcome == ReadOutcome(fr.validator, f)
           c == [call[p] EXCEPT !.reads = @ + 1, !.lastRead = fr.mdFile]
       IN Apply(p, IF ~OnDisk(fr.mdFile) THEN Throw(call[p], "ENOENT")
                   ELSE IF outcome # "ok" THEN Throw(c, outcome)
                   ELSE Await(stack[p], c, fr,
                              HydrateFrame(fr.type, Busy(MakeObject(f)))))
    /\ UNCHANGED <<disk, maxSize, idSchema, objectTypes, cacheByFile, cacheById,
                   filenameCache, objsInHydration, nregs>>

\* GetByFileStore that keeps the entry a nested load of the path has left
GetByFileStoreKeepingFirst(p) ==
    /\ running = p /\ At(p, "getByFile", "ret")
    /\ cacheByFile' = IF LruHas(cacheByFile, Top(p).mdFile) THEN cacheByFile
                      ELSE LruSet(cacheByFile, Top(p).mdFile, Top(p).res)
    /\ Apply(p, Return(stack[p], call[p], Top(p).res))
    /\ UNCHANGED <<disk, maxSize, idSchema, objectTypes, cacheById,
                   filenameCache, objsInHydration, nregs>>

\* hydrateRelations returned: the object is cached and returned
GetByFileStore(p) ==
    /\ running = p /\ At(p, "getByFile", "ret")
    /\ cacheByFile' = LruSet(cacheByFile, Top(p).mdFile, Top(p).res)
    /\ Apply(p, Return(stack[p], call[p], Top(p).res))
    /\ UNCHANGED <<disk, maxSize, idSchema, objectTypes, cacheById,
                   filenameCache, objsInHydration, nregs>>

-----------------------------------------------------------------------------
(* hydrateRelations *)

RECURSIVE HydrateLoop(_, _, _)
RECURSIVE HydrateItems(_, _, _)

\* the loop over the relations still to do (fr.rels)
HydrateLoop(stk, c, fr) ==
    IF fr.rels = <<>> THEN Return(stk, c, Settled(fr.object))
    ELSE LET rel == Head(fr.rels)
             raw == Get(fr.object, rel.name)
         IN IF Falsy(raw) THEN HydrateLoop(stk, c, [fr EXCEPT !.rels = Tail(@)])
            ELSE IF rel.relType = "hasMany"
            THEN IF raw.k # "arr" THEN Throw(c, "TypeError")
                 ELSE HydrateItems(stk, c, [fr EXCEPT !.items = raw.items,
                                                      !.newItems = <<>>])
            ELSE IF rel.relType = "hasOne"
            THEN Await(stk, c, fr, FindByIdFrame(rel.objType, raw))
            ELSE Throw(c, "UnsupportedRelationKind")

\* the loop over the ids of a hasMany relation still to do (fr.items)
HydrateItems(stk, c, fr) ==
    LET rel == Head(fr.rels) IN
    IF fr.items = <<>>
    THEN HydrateLoop(stk, c,
            [fr EXCEPT !.object = (rel.name :> ArrV(fr.newItems)) @@ @,
                       !.rels = Tail(@)])
    ELSE Await(stk, c, fr, FindByIdFrame(rel.objType, Head(fr.items)))

\* InHydration without the lookup: the guard never short-circuits
InHydrationNever(key) == FALSE

\* is the key in objsInHydration already
InHydration(key) == \E i \in 1..Len(objsInHydration) : objsInHydration[i] = key

\* hydrateRelations up to its first await
HydrateEnter(p) ==
    /\ running = p /\ At(p, "hydrateRelations", "start")
    /\ LET fr == Top(p)
           hydrationKey == TypeIdKey(fr.type, fr.object.id)
       IN IF ~Registered(fr.type)
          THEN /\ objsInHydration' = objsInHydration
               /\ Apply(p, Throw(call[p], "NoSuchObjectType"))
          ELSE IF InHydration(hydrationKey)
          THEN /\ objsInHydration' = objsInHydration
               /\ Apply(p, Return(stack[p], call[p], Settled(fr.object)))
          ELSE /\ objsInHydration' = Append(objsInHydration, hydrationKey)
               /\ Apply(p, HydrateLoop(stack[p],
                                       [call[p] EXCEPT !.entered = @ + 1],
                                       [fr EXCEPT !.rels =
                                            objectTypes[fr.type].relations]))
    /\ UNCHANGED <<disk, maxSize, idSchema, objectTypes, cacheByFile, cacheById,
                   filenameCache, nregs>>

\* HydrateNext that does not add an object already among the new items
HydrateNextDistinct(p) ==
    /\ running = p /\ At(p, "hydrateRelations", "ret")
    /\ LET fr == Top(p)
           rel == Head(fr.rels)
           seen == \E k \in 1..Len(fr.newItems) : fr.newItems[k] = ObjV(fr.res)
       IN Apply(p, IF rel.relType = "hasMany"
                   THEN HydrateItems(stack[p], call[p],
                            [fr EXCEPT !.newItems = IF seen THEN @
                                                    ELSE Append(@, ObjV(fr.res)),
                                       !.items = Tail(@)])
                   ELSE HydrateLoop(stack[p], call[p],
                            [fr EXCEPT !.object = (rel.name :> ObjV(fr.res)) @@ @,
                                       !.rels = Tail(@)]))
    /\ UNCHANGED <<disk, maxSize, idSchema, objectTypes, cacheByFile, cacheById,
                   filenameCache, objsInHydration, nregs>>

\* findById returned the object of a relation id
HydrateNext(p) ==
    /\ running = p /\ At(p, "hydrateRelations", "ret")
    /\ LET fr == Top(p)
           rel == Head(fr.rels)
       IN Apply(p, IF rel.relType = "hasMany"
                   THEN HydrateItems(stack[p], call[p],
                            [fr EXCEPT !.newItems = Append(@, ObjV(fr.res)),
                                       !.items = Tail(@)])
                   ELSE HydrateLoop(stack[p], call[p],
                            [fr EXCEPT !.object = (rel.name :> ObjV(fr.res)) @@ @,
                                       !.rels = Tail(@)]))
    /\ UNCHANGED <<disk, maxSize, idSchema, objectTypes, cacheByFile, cacheById,
                   filenameCache, objsInHydration, nregs>>

-----------------------------------------------------------------------------
(* Specifications *)

Register ==
    \E type \in Types : \E rels \in RelationChoices(type) : AddObjectType(type, rels)

Calls(p) ==
    \/ \E type \in Types, id \in QueryIds : StartFindById(p, type, id)
    \/ \E type \in Types : \E i \in 1..Len(PathsOf(type)) :
            StartGetByFile(p, type, PathsOf(type)[i])
    \/ \E type \in Types : StartGetAllByType(p, type)
    \/ \E type \in Types, query \in Queries : StartFind(p, type, query)

Steps(p) ==
    \/ FilesGlobbed(p)
    \/ FindByIdEnter(p)
    \/ FindByIdNext(p)
    \/ GetAllByTypeEnter(p)
    \/ GetAllByTypeNext(p)
    \/ FindEnter(p)
    \/ FindMatch(p)
    \/ GetByFileEnter(p)
    \/ GetByFileRead(p)
    \/ GetByFileStore(p)
    \/ HydrateEnter(p)
    \/ HydrateNext(p)

\* one caller that awaits each operation before it starts the next
Next ==
    \/ Register
    \/ Idle /\ Calls(1)
    \/ Steps(1)

Spec == Init /\ [][Next]_vars

\* the store of the tests' "with author/article fixtures": constructed on
\* the fixture disk, article registered, then author
InitFixture ==
    LET article == Registration("article", UserSchema("article"), HasOneAuthor,
                                [types |-> {"string", "integer"}, nullable |-> "unset"])
        author == Registration("author", UserSchema("author"), HasManyArticles,
                               article.idS)
    IN /\ disk = <<Great, Jon>>
       /\ maxSize \in MaxCacheSizes
       /\ idSchema = author.idS
       /\ objectTypes = ("author" :> author.descriptor)
                         @@ ("article" :> article.descriptor)
       /\ cacheByFile = <<>>
       /\ cacheById = <<>>
       /\ filenameCache = <<>>
       /\ objsInHydration = <<>>
       /\ stack = [p \in Procs |-> <<>>]
       /\ running = 0
       /\ call = [p \in Procs |-> NoCall]
       /\ nregs = 2

\* what the two concurrent callers ask for
ConcCalls(p) ==
    \/ \E type \in Types, id \in {IntV(1), IntV(9)} : StartFindById(p, type, id)
    \/ \E type \in Types : \E i \in 1..Len(PathsOf(type)) :
            StartGetByFile(p, type, PathsOf(type)[i])
    \/ \E type \in Types : StartGetAllByType(p, type)
    \/ \E type \in Types : StartFind(p, type, [name |-> StrV("Jon")])

\* two callers, each awaiting its own operations only
NextConc ==
    \/ \E p \in Procs : call[p].count < MaxConcOps /\ ConcCalls(p)
    \/ \E p \in Procs : Steps(p)

SpecConc == InitFixture /\ [][NextConc]_vars

\* what the directories hold over time: the article alone, the fixture, and
\* the fixture with a second article
DiskStates == {<<Great>>, <<Great, Jon>>, <<Great, Second, Jon>>}

\* between two operations files are added to or removed from the directories
WriteFiles ==
    /\ Idle /\ running = 0
    /\ \E d \in DiskStates \ {disk} : disk' = d
    /\ UNCHANGED <<maxSize, idSchema, objectTypes, cacheByFile, cacheById,
                   filenameCache, objsInHydration, stack, running, call, nregs>>

\* a store constructed with the default budget, nothing registered
InitDisk ==
    /\ disk \in DiskStates
    /\ maxSize = DEFAULT_MAX_CACHE_SIZE
    /\ idSchema = [types |-> {"string", "integer"}, nullable |-> "unset"]
    /\ objectTypes = <<>>
    /\ cacheByFile = <<>>
    /\ cacheById = <<>>
    /\ filenameCache = <<>>
    /\ objsInHydration = <<>>
    /\ stack = [p \in Procs |-> <<>>]
    /\ running = 0
    /\ call = [p \in Procs |-> NoCall]
    /\ nregs = 0

\* one caller, and a disk that changes between its operations
NextDisk ==
    \/ Register
    \/ Idle /\ ConcCalls(1)
    \/ Steps(1)
    \/ WriteFiles

SpecDisk == InitDisk /\ [][NextDisk]_vars

\* the stores whose files name each other in a cycle
InitCyclic == Init /\ disk \in {<<Great, Jon>>, <<Great, Dangling>>}

\* the event loop runs every continuation, and reads and globs complete
SpecFair == InitCyclic /\ [][Next]_vars /\ WF_vars(Steps(1))

-----------------------------------------------------------------------------
(* Vocabulary of the properties *)

\* article -> author and author -> articles are registered
FixtureRelations ==
    /\ Registered("article") /\ objectTypes["article"].relations = HasOneAuthor
    /\ Registered("author") /\ objectTypes["author"].relations = HasManyArticles

\* slot p holds the outcome of a finished call of op
Finished(p, op) == call[p].op = op /\ call[p].status \notin {"idle", "running"}

\* v is an embedded object whose attribute key is the string s
EmbeddedWith(v, key, s) == v.k = "obj" /\ Get(v.o, key) = StrV(s)

-----------------------------------------------------------------------------
(* C1 *)

\* C1: with the article -> author (hasOne) and author -> articles (hasMany)
\* relations registered and the two fixture files naming each other by id,
\* every findById(author, 1) yields an object whose articles are the embedded
\* article objects (one per raw id, with the title) and every
\* findById(article, 1) yields an object whose author is the embedded author
\* (with the name), whatever findById calls came before.
C1_RelationsLoaded ==
    \A p \in Procs :
        ( /\ FixtureRelations /\ disk = <<Great, Jon>>
          /\ Finished(p, "findById") /\ call[p].arg = IntV(1) )
        => /\ call[p].status = "ok"
           /\ call[p].type = "author" =>
                LET articles == Get(call[p].val, "articles") IN
                /\ articles.k = "arr" /\ Len(articles.items) = 1
                /\ EmbeddedWith(articles.items[1], "title", "Great")
           /\ call[p].type = "article" =>
                EmbeddedWith(Get(call[p].val, "author"), "name", "Jon")

\* the same, on a store whose cache budget holds every object
C1_RelationsLoadedDefaultBudget ==
    maxSize = DEFAULT_MAX_CACHE_SIZE => C1_RelationsLoaded

-----------------------------------------------------------------------------
(* C2 *)

\* slot p has finished a getByFile that directly followed a successful
\* getByFile of the same type and path
SecondLoad(p) == Finished(p, "getByFile") /\ call[p].prev # <<>>

\* C2 as claimed: for every cache size budget, the second of two successive
\* getByFile(type, path) calls returns an object equal to the first and reads
\* no file.
C2_SecondLoadIsCacheHit ==
    \A p \in Procs :
        SecondLoad(p) =>
            /\ call[p].status = "ok"
            /\ call[p].val = call[p].prev[1]
            /\ call[p].reads = 0

\* C2 amended: when the object's serialized size is within the cache size
\* budget, the second of two successive getByFile(type, path) calls returns
\* an object equal to the first and reads no file.
C2_SecondLoadIsCacheHitWhenItFits ==
    \A p \in Procs :
        (SecondLoad(p) /\ SizeCalculation(call[p].prev[1]) <= maxSize) =>
            /\ call[p].status = "ok"
            /\ call[p].val = call[p].prev[1]
            /\ call[p].reads = 0

\* a second load of the hydrated author, on a store whose budget holds it
\* but not every object
C2_Witness ==
    /\ SecondLoad(1) /\ call[1].status = "ok" /\ call[1].reads = 0
    /\ maxSize < DEFAULT_MAX_CACHE_SIZE
    /\ SizeCalculation(call[1].prev[1]) <= maxSize
    /\ LET articles == Get(call[1].val, "articles") IN
       articles.k = "arr" /\ Len(articles.items) = 1 /\ articles.items[1].k = "obj"

-----------------------------------------------------------------------------
(* C3 *)

\* the registered types whose directory holds file f
TypesOfFile(f) == {type \in DOMAIN objectTypes : objectTypes[type].dirName = f.dir}

\* f's header fails the compiled validator of a type it belongs to
Invalid(f) ==
    \E type \in TypesOfFile(f) : ~Validate(objectTypes[type].schemaValidator, f.header)

\* C3: an operation that reads a file whose header fails its type's validator
\* fails with the validation error, and the primary cache never holds an
\* entry for the path of such a file.
C3_InvalidNeverCached ==
    /\ \A p \in Procs :
          (call[p].lastRead # "" /\ Invalid(FileAt(call[p].lastRead)))
          => call[p].status = "ValidationError"
    /\ \A i \in 1..Len(disk) :
          Invalid(disk[i]) => ~LruHas(cacheByFile, FilePath(disk[i]))

\* getByFile of the author failed with the validation error of the article
\* file that its hydration scanned
C3_Witness ==
    /\ Finished(1, "getByFile") /\ call[1].type = "author"
    /\ call[1].status = "ValidationError"
    /\ call[1].lastRead = FilePath(NoTitle)
    /\ ~LruHas(cacheByFile, FilePath(NoTitle))

-----------------------------------------------------------------------------
(* C4 *)

\* C4: when a getByFile call fails, the primary cache holds no entry for its
\* path, provided it held none before the call.
C4_FailedLoadLeavesNoEntry ==
    \A p \in Procs :
        (Finished(p, "getByFile") /\ call[p].status # "ok" /\ call[p].cold)
        => ~LruHas(cacheByFile, call[p].arg)

-----------------------------------------------------------------------------
(* C5 *)

\* the hydrateRelations frames of slot p that are past the cycle guard
Hydrating(p) ==
    {i \in 1..Len(stack[p]) :
        stack[p][i].fn = "hydrateRelations" /\ stack[p][i].pc \in {"wait", "ret"}}

\* no (type, id) pair is being hydrated twice on one call chain
NoReentry ==
    \A p \in Procs : \A i, j \in Hydrating(p) :
        ( /\ stack[p][i].type = stack[p][j].type
          /\ stack[p][i].object.id = stack[p][j].object.id ) => i = j

\* an operation enters hydration at most once per file
EnteredBounded == \A p \in Procs : call[p].entered <= Len(disk)

\* C5: on every disk, cyclic relation graphs included, hydration is never
\* re-entered for a (type, id) pair on the active call chain, an operation
\* enters hydration a bounded number of times, and every operation started
\* terminates.
C5_CyclesTerminate ==
    /\ [](NoReentry /\ EnteredBounded)
    /\ (stack[1] # <<>>) ~> (stack[1] = <<>>)

\* findById of a self-referencing author has returned: the author embeds a
\* copy of itself that still holds the raw id
C5_Witness ==
    /\ Finished(1, "findById") /\ call[1].status = "ok"
    /\ LET articles == Get(call[1].val, "articles") IN
       /\ articles.k = "arr" /\ Len(articles.items) = 1
       /\ articles.items[1].k = "obj"
       /\ articles.items[1].o["_path"] = call[1].val["_path"]
       /\ articles.items[1].o["articles"] = ArrV(<<IntV(1)>>)

-----------------------------------------------------------------------------
(* C6 *)

\* the header of the file slot p read last
LastHeader(p) == FileAt(call[p].lastRead).header

\* C6 as claimed: an operation that reads a file whose header has no id
\* attribute fails with MissingId and with no other error, and the file is
\* not cached.
C6_NoIdIsMissingId ==
    \A p \in Procs :
        (call[p].lastRead # "" /\ "id" \notin DOMAIN LastHeader(p))
        => /\ call[p].status = "MissingId"
           /\ ~LruHas(cacheByFile, call[p].lastRead)

\* C6 amended: an operation that reads a file whose header has no id
\* attribute fails with the validation error, id being a required property
\* of every compiled schema; MissingId is the error for a header that passes
\* validation with an empty id ("", 0, or null under a nullable id schema).
\* In both cases the file is not cached.
C6_NoIdFailsValidation ==
    /\ \A p \in Procs :
          call[p].lastRead # "" =>
            /\ "id" \notin DOMAIN LastHeader(p) => call[p].status = "ValidationError"
            /\ ( /\ "id" \in DOMAIN LastHeader(p) /\ Falsy(LastHeader(p).id)
                 /\ ~Invalid(FileAt(call[p].lastRead)) )
               => call[p].status = "MissingId"
    /\ \A i \in 1..Len(disk) :
          Falsy(Get(disk[i].header, "id")) => ~LruHas(cacheByFile, FilePath(disk[i]))

\* getByFile of the file without id has failed with the validation error
C6_Witness ==
    /\ Finished(1, "getByFile") /\ call[1].arg = FilePath(NoId)
    /\ call[1].lastRead = FilePath(NoId)
    /\ call[1].status = "ValidationError"
    /\ ~LruHas(cacheByFile, FilePath(NoId))

\* getByFile of a file with an empty id has failed with MissingId
C6_WitnessEmptyId ==
    /\ Finished(1, "getByFile") /\ call[1].lastRead = FilePath(NullId)
    /\ call[1].status = "MissingId"

-----------------------------------------------------------------------------
(* C7 *)

\* slots p and q have both finished a successful getByFile of the same file,
\* not cached when either began, and the two loads overlapped
LoadedTogether(p, q) ==
    /\ p # q
    /\ Finished(p, "getByFile") /\ Finished(q, "getByFile")
    /\ call[p].type = call[q].type /\ call[p].arg = call[q].arg
    /\ call[p].cold /\ call[q].cold
    /\ call[p].overlap /\ call[q].overlap
    /\ call[p].status = "ok" /\ call[q].status = "ok"

\* C7: two operations that load the same not yet cached file concurrently
\* return equal objects, and the cache entry left for the path equals them.
C7_ConcurrentLoadsAgree ==
    \A p, q \in Procs :
        LoadedTogether(p, q) =>
            /\ call[p].val = call[q].val
            /\ LruHas(cacheByFile, call[p].arg) =>
                 cacheByFile[LruIndex(cacheByFile, call[p].arg)].value = call[p].val

-----------------------------------------------------------------------------
(* C8 *)

\* the objects embedded in the fields of obj
Embedded(obj) ==
    {obj[key].o : key \in {k \in DOMAIN obj : obj[k].k = "obj"}}
    \cup UNION {{obj[key].items[i].o :
                    i \in {j \in 1..Len(obj[key].items) : obj[key].items[j].k = "obj"}} :
                key \in {k \in DOMAIN obj : obj[k].k = "arr"}}

\* the objects the store has returned or holds in the primary cache, and
\* the objects embedded in them, two levels deep
Returned ==
    UNION {IF call[p].status # "ok" THEN {}
           ELSE IF call[p].op \in {"findById", "getByFile"} THEN {call[p].val}
           ELSE {call[p].val[i] : i \in 1..Len(call[p].val)} : p \in Procs}

StoreObjects ==
    LET top == Returned \cup {cacheByFile[i].value : i \in 1..Len(cacheByFile)}
        one == UNION {Embedded(obj) : obj \in top}
        two == UNION {Embedded(obj) : obj \in one}
    IN top \cup one \cup two

\* the file obj was built from
FileOf(obj) == FileAt(obj["_path"].s)

\* field rel.name of obj holds exactly the objects its raw ids name
ResolvedExactly(obj, rel) ==
    LET raw == Get(FileOf(obj).header, rel.name)
        now == Get(obj, rel.name)
    IN /\ now.k = "arr" /\ Len(now.items) = Len(raw.items)
       /\ \A k \in 1..Len(raw.items) :
            /\ now.items[k].k = "obj"
            /\ StrictEq(now.items[k].o.id, raw.items[k])
            /\ FileOf(now.items[k].o).dir = objectTypes[rel.objType].dirName

-----------------------------------------------------------------------------
(* C9 *)

\* every key of the query has a strictly equal value on obj
MatchesAll(obj, query) ==
    \A key \in DOMAIN query : StrictEq(Get(obj, key), query[key])

\* C9: find returns exactly the objects of getAllByType that match every key
\* of the query, in the same order; the empty query keeps every object.
C9_FindKeepsExactMatches ==
    \A p \in Procs :
        (Finished(p, "find") /\ call[p].status = "ok") =>
            call[p].val = SelectSeq(call[p].all,
                                    LAMBDA obj : MatchesAll(obj, call[p].arg))

\* a find whose query matches the author's name but not its id returned
\* nothing
C9_Witness ==
    /\ Finished(1, "find") /\ call[1].status = "ok"
    /\ call[1].arg = [name |-> StrV("Jon"), id |-> IntV(9)]
    /\ Len(call[1].all) = 1
    /\ Get(call[1].all[1], "name") = StrV("Jon")
    /\ call[1].val = <<>>

-----------------------------------------------------------------------------
(* C10 *)

\* C10: an object that lacks a key of the query is never among the results
\* of find, whatever value the query gives the key.
C10_AbsentKeyNeverMatches ==
    \A p \in Procs :
        (Finished(p, "find") /\ call[p].status = "ok") =>
            \A i \in 1..Len(call[p].all) :
                (\E key \in DOMAIN call[p].arg : key \notin DOMAIN call[p].all[i])
                => \A j \in 1..Len(call[p].val) : call[p].val[j] # call[p].all[i]

-----------------------------------------------------------------------------
(* C11 *)

\* slot p holds the outcome of a findById of a registered type for an id that
\* no file of the type's directory carries
AbsentLookup(p) ==
    /\ Finished(p, "findById") /\ Registered(call[p].type)
    /\ \A i \in 1..Len(disk) :
         disk[i].dir = objectTypes[call[p].type].dirName
         => ~StrictEq(Get(disk[i].header, "id"), call[p].arg)

\* the loop of the operation of slot p has loaded every file of the list
ScannedAll(p) ==
    /\ call[p].type \in DOMAIN filenameCache
    /\ call[p].scanned = Len(filenameCache[call[p].type])

\* every file of the type passes its validator with an id, and the type has
\* no relations to hydrate
LoadsCleanly(type) ==
    /\ objectTypes[type].relations = <<>>
    /\ \A i \in 1..Len(disk) :
         disk[i].dir = objectTypes[type].dirName
         => ReadOutcome(objectTypes[type].schemaValidator, disk[i]) = "ok"

\* C11 as stated: findById of an id no file of the registered type carries
\* fails with NotFound and with nothing else, after every file of the
\* memoized list has been loaded.
C11_AbsentIdIsNotFound ==
    \A p \in Procs :
        AbsentLookup(p) => call[p].status = "NotFound" /\ ScannedAll(p)

\* C11 amended: such a findById always fails; when every file of the list
\* has been loaded it fails with NotFound, which is what happens whenever
\* the files of the type load cleanly; otherwise it fails with the error of
\* the first file that did not load, before the list is exhausted.
C11_AbsentIdFailsAfterScan ==
    \A p \in Procs :
        AbsentLookup(p) =>
            /\ call[p].status # "ok"
            /\ ScannedAll(p) => call[p].status = "NotFound"
            /\ LoadsCleanly(call[p].type) =>
                    call[p].status = "NotFound" /\ ScannedAll(p)
            /\ ~ScannedAll(p) =>
                    call[p].status \in {"ValidationError", "MissingId", "NotFound",
                                        "NoSuchObjectType"}

\* a findById of an absent id has loaded both articles and failed with NotFound
C11_Witness ==
    /\ disk = <<Great, Second, Prolific>>
    /\ AbsentLookup(1) /\ call[1].type = "article" /\ call[1].arg = IntV(9)
    /\ LoadsCleanly("article")
    /\ call[1].scanned = 2 /\ call[1].status = "NotFound"

\* a findById of an absent id failed with the validation error of a file
C11_WitnessInvalidFile ==
    /\ disk = <<NoTitle, Jon>>
    /\ AbsentLookup(1) /\ call[1].arg = IntV(9)
    /\ call[1].status = "ValidationError" /\ call[1].scanned = 0

-----------------------------------------------------------------------------
(* C12 *)

\* objects holds one object per path of files, the k-th built from the k-th
OnePerFile(objects, files) ==
    /\ Len(objects) = Len(files)
    /\ \A k \in 1..Len(files) : Get(objects[k], "_path") = StrV(files[k])

\* C12: a getAllByType that succeeds returns one object per file of the
\* type's memoized file list, the k-th object built from the k-th path, and
\* has loaded every file of the list; one that fails returns no sequence.
C12_AllByTypeIsComplete ==
    \A p \in Procs :
        Finished(p, "getAllByType") =>
            IF call[p].status = "ok"
            THEN /\ call[p].type \in DOMAIN filenameCache
                 /\ filenameCache[call[p].type] = PathsOf(call[p].type)
                 /\ OnePerFile(call[p].val, filenameCache[call[p].type])
                 /\ ScannedAll(p)
            ELSE call[p].val = <<>>

\* getAllByType returned the two articles of the disk in the order of the list
C12_Witness ==
    /\ disk = <<Great, Second, Prolific>>
    /\ Finished(1, "getAllByType") /\ call[1].status = "ok"
    /\ call[1].type = "article"
    /\ Len(call[1].val) = 2
    /\ Get(call[1].val[1], "_path") = StrV(FilePath(Great))
    /\ Get(call[1].val[2], "_path") = StrV(FilePath(Second))

\* getAllByType failed on the second file after loading the first
C12_WitnessFailed ==
    /\ disk = <<Great, NoTitle>>
    /\ Finished(1, "getAllByType") /\ call[1].status = "ValidationError"
    /\ call[1].scanned = 1 /\ call[1].val = <<>>

-----------------------------------------------------------------------------
(* C13 *)

\* the property compiled for relation rel of a registered type
RelationProperty(type, rel) == objectTypes[type].schemaValidator.properties[rel.name]

\* C13: the property generated for a relation is nullable exactly when the
\* relation is not marked required.
C13_NullableUnlessRequired ==
    \A type \in DOMAIN objectTypes :
        \A r \in 1..Len(objectTypes[type].relations) :
            LET rel == objectTypes[type].relations[r] IN
            (RelationProperty(type, rel).nullable = "true") <=> (rel.required # "true")

-----------------------------------------------------------------------------
(* C14 *)

\* C14: once a getByFile has built an object from its file and returned it,
\* the secondary index maps the object's type and id to the path.
C14_LoadFillsIdIndex ==
    \A p \in Procs :
        (Finished(p, "getByFile") /\ call[p].status = "ok" /\ call[p].cold) =>
            LET cacheKey == TypeIdKey(call[p].type, Get(call[p].val, "id")) IN
            /\ cacheKey \in DOMAIN cacheById
            /\ cacheById[cacheKey] = call[p].arg

-----------------------------------------------------------------------------
(* C15 *)

\* C15: when no operation of the store is in progress the cycle guard holds
\* no (type, id) pair.
C15_GuardEmptyWhenIdle == Idle => objsInHydration = <<>>

-----------------------------------------------------------------------------
(* C16 *)

\* the objects a relation field embeds; none while it holds raw ids
FieldObjects(v) ==
    IF v.k = "obj" THEN <<v.o>>
    ELSE IF v.k = "arr" /\ \A i \in 1..Len(v.items) : v.items[i].k = "obj"
    THEN [i \in 1..Len(v.items) |-> v.items[i].o]
    ELSE <<>>

\* slot p holds the object A that a getByFile built from its file with the
\* fixture's two relations registered, after hydrating A and, under it, an
\* object B of the other type, whose relation leads back to A
CycleLoaded(p) ==
    /\ FixtureRelations
    /\ Finished(p, "getByFile") /\ call[p].status = "ok"
    /\ call[p].cold /\ call[p].entered >= 2

\* A embeds the objects of its relation, and each copy of A that these embed
\* holds the raw ids of A's file in its relation
CycleShape(A, type) ==
    LET relA == objectTypes[type].relations[1]
        relB == objectTypes[relA.objType].relations[1]
        Bs == FieldObjects(Get(A, relA.name))
    IN /\ Bs # <<>>
       /\ \A k \in 1..Len(Bs) : FileOf(Bs[k]).dir = objectTypes[relA.objType].dirName
       /\ \E k \in 1..Len(Bs) :
            LET As == FieldObjects(Get(Bs[k], relB.name)) IN
            \E j \in 1..Len(As) : FileOf(As[j]) = FileOf(A)
       /\ \A k \in 1..Len(Bs) :
            LET As == FieldObjects(Get(Bs[k], relB.name)) IN
            \A j \in 1..Len(As) :
                FileOf(As[j]) = FileOf(A)
                => Get(As[j], relA.name) = Get(FileOf(A).header, relA.name)

\* the primary cache holds obj under path
CachedAs(path, obj) ==
    /\ LruHas(cacheByFile, path)
    /\ cacheByFile[LruIndex(cacheByFile, path)].value = obj

\* C16 as stated: in a cycle A -> B -> A the copy of A that B embeds holds
\* raw ids, the A returned embeds B, and that A is the entry of the primary
\* cache for A's path when the call completes.
C16_CycleLeavesTopLevelCached ==
    \A p \in Procs :
        CycleLoaded(p) =>
            /\ CycleShape(call[p].val, call[p].type)
            /\ CachedAs(call[p].arg, call[p].val)

\* C16 amended: the same, with the returned A being the cache entry for its
\* path exactly when its serialized size is within the cache budget; when it
\* is larger the path is left without an entry.
C16_CycleLeavesTopLevelCachedIfItFits ==
    \A p \in Procs :
        CycleLoaded(p) =>
            /\ CycleShape(call[p].val, call[p].type)
            /\ IF SizeCalculation(call[p].val) <= maxSize
               THEN CachedAs(call[p].arg, call[p].val)
               ELSE ~LruHas(cacheByFile, call[p].arg)

\* the fixture's author was loaded through the cycle and cached
C16_Witness ==
    /\ CycleLoaded(1) /\ disk = <<Great, Jon>>
    /\ call[1].arg = FilePath(Jon)
    /\ CycleShape(call[1].val, "author")
    /\ CachedAs(call[1].arg, call[1].val)

\* the fixture's article was loaded through the cycle on a store whose
\* budget is below its size
C16_WitnessTooLarge ==
    /\ CycleLoaded(1) /\ disk = <<Great, Jon>>
    /\ call[1].arg = FilePath(Great)
    /\ SizeCalculation(call[1].val) > maxSize
    /\ ~LruHas(cacheByFile, call[1].arg)

-----------------------------------------------------------------------------
(* C17 *)

\* the frames of slot p that loop over a file list they have obtained
Scanning(p) ==
    {i \in 1..Len(stack[p]) :
        /\ stack[p][i].fn \in {"findById", "getAllByType"}
        /\ stack[p][i].pc \in {"wait", "ret"}}

\* a list once memoized stays as it is
MemoKept ==
    \A type \in DOMAIN filenameCache :
        type \in DOMAIN filenameCache' /\ filenameCache'[type] = filenameCache[type]

\* a directory is scanned only for a type without a memoized list, every
\* list a loop runs over is the memoized one, and only registered types
\* have a list
MemoServed ==
    /\ \A p \in Procs : \A i \in 1..Len(stack[p]) :
            stack[p][i].pc = "glob" => stack[p][i].type \notin DOMAIN filenameCache
    /\ \A p \in Procs : \A i \in Scanning(p) :
            /\ stack[p][i].type \in DOMAIN filenameCache
            /\ stack[p][i].files = filenameCache[stack[p][i].type]
    /\ DOMAIN filenameCache \subseteq DOMAIN objectTypes
    /\ \A p \in Procs :
            ( /\ call[p].op \in {"findById", "getAllByType", "find"}
              /\ call[p].status \notin {"idle", "running"}
              /\ ~Registered(call[p].type) )
            => call[p].status = "NoSuchObjectType"

C17_WitnessEmptyList ==
    /\ "author" \in DOMAIN filenameCache /\ filenameCache["author"] = <<>>
    /\ PathsOf("author") # <<>>
    /\ Finished(1, "getAllByType") /\ call[1].type = "author"
    /\ call[1].status = "ok" /\ call[1].val = <<>> /\ call[1].reads = 0

-----------------------------------------------------------------------------
(* C18 *)

\* every registered type keeps its descriptor in the step
DescriptorsKept ==
    \A type \in DOMAIN objectTypes :
        type \in DOMAIN objectTypes' /\ objectTypes'[type] = objectTypes[type]

\* C18: no step of the store, a later addObjectType of the same type name
\* included, changes or removes the descriptor of a registered type.
C18_DescriptorsAreImmutable == [][DescriptorsKept]_vars

-----------------------------------------------------------------------------
(* C19 *)

RECURSIVE HasBusy(_)
\* value v is, or holds at some depth, an object still in hydration
HasBusy(v) ==
    CASE v.k = "obj" -> \/ "_busy" \in DOMAIN v.o
                        \/ \E key \in DOMAIN v.o : HasBusy(v.o[key])
      [] v.k = "arr" -> \E j \in 1..Len(v.items) : HasBusy(v.items[j])
      [] OTHER -> FALSE

\* no object of the sequence is or holds an object still in hydration
AllSettled(objects) == \A j \in 1..Len(objects) : ~HasBusy(ObjV(objects[j]))

\* what frame fr holds, apart from the object it is hydrating itself
FrameSettled(fr) ==
    /\ fr.fn = "find" => AllSettled(fr.res)
    /\ (fr.fn # "find" /\ fr.res # <<>>) => ~HasBusy(ObjV(fr.res))
    /\ fr.fn = "getAllByType" => AllSettled(fr.objects)
    /\ fr.fn = "hydrateRelations" =>
            /\ \A key \in DOMAIN fr.object \ {"_busy"} : ~HasBusy(fr.object[key])
            /\ \A j \in 1..Len(fr.newItems) : ~HasBusy(fr.newItems[j])

-----------------------------------------------------------------------------
(* C20 *)

\* ID_SCHEMA_TYPE as the module defines it
PristineId == [types |-> {"string", "integer"}, nullable |-> "unset"]

\* the descriptor the type would get were it the first type registered
RegisteredAlone(type) ==
    Registration(type, UserSchema(type), objectTypes[type].relations,
                 PristineId).descriptor

\* C20: the compiled schema of every registered type has the required
\* string-or-integer id property without a nullability flag, and is the
\* schema the type would have got had no other registration preceded it.
C20_SchemaDependsOnOwnDeclarations ==
    \A type \in DOMAIN objectTypes :
        /\ objectTypes[type].schemaValidator.properties["id"] = PristineId
        /\ "id" \in objectTypes[type].schemaValidator.required
        /\ objectTypes[type] = RegisteredAlone(type)

====
